---- MODULE Spec2Model ----
(***************************************************************************)
(* Model of fapy/api.py: the Session configuration object with its         *)
(* validating property setters, and the endpoint functions that check      *)
(* their argument combinations and delegate to _send_request.              *)
(*                                                                         *)
(* Python values are tagged records: None, int, float and str.  A str is   *)
(* a sequence of characters so that str.lower(), str.isnumeric() and       *)
(* int(str) are computed and not assumed.                                  *)
(***************************************************************************)
EXTENDS Integers, Sequences, FiniteSets, TLC

VARIABLES current_year, session, last

vars == <<current_year, session, last>>

(***************************************************************************)
(* Bounds of the model.                                                    *)
(***************************************************************************)
StartYear == 2017
MaxTicks == 1
MaxPages == 3
MaxRows == 2

MinSeason == 2015

(***************************************************************************)
(* Python values.                                                          *)
(***************************************************************************)
PyNone == [t |-> "NoneType"]
PyInt(n) == [t |-> "int", i |-> n]
PyFloat(n, d) == [t |-> "float", num |-> n, den |-> d]
PyStr(chars) == [t |-> "str", s |-> chars]

Unset == [t |-> "unset"]

IsNone(v) == v.t = "NoneType"
IsStr(v) == v.t = "str"
IsNumber(v) == v.t \in {"int", "float"}

(* character tables: the upper-case letters and the numeric characters     *)
(* that occur in the inputs; "sup2" stands for U+00B2 SUPERSCRIPT TWO,     *)
(* which is numeric but not a decimal digit.                               *)
UpperToLower ==
    [c \in {"A", "C", "D", "E", "F", "G", "I", "J", "L", "M", "N", "O",
            "P", "R", "S", "T", "U", "X"} |->
        CASE c = "A" -> "a" [] c = "C" -> "c" [] c = "D" -> "d"
          [] c = "E" -> "e" [] c = "F" -> "f" [] c = "G" -> "g"
          [] c = "I" -> "i" [] c = "J" -> "j" [] c = "L" -> "l"
          [] c = "M" -> "m" [] c = "N" -> "n" [] c = "O" -> "o"
          [] c = "P" -> "p" [] c = "R" -> "r" [] c = "S" -> "s"
          [] c = "T" -> "t" [] c = "U" -> "u" [] c = "X" -> "x"]

DigitValue ==
    [c \in {"0", "1", "2", "3", "4", "5", "6", "7", "8", "9"} |->
        CASE c = "0" -> 0 [] c = "1" -> 1 [] c = "2" -> 2 [] c = "3" -> 3
          [] c = "4" -> 4 [] c = "5" -> 5 [] c = "6" -> 6 [] c = "7" -> 7
          [] c = "8" -> 8 [] c = "9" -> 9]

NumericChars == DOMAIN DigitValue \cup {"sup2"}

(* str.lower() *)
lower(chars) ==
    [k \in DOMAIN chars |->
        IF chars[k] \in DOMAIN UpperToLower THEN UpperToLower[chars[k]]
        ELSE chars[k]]

(* str.isnumeric(): non-empty and every character numeric *)
isnumeric(chars) ==
    /\ Len(chars) > 0
    /\ \A k \in DOMAIN chars : chars[k] \in NumericChars

(* int(str) on a string of numeric characters: the decimal value, or a     *)
(* ValueError when a character is not a decimal digit                      *)
RECURSIVE DecimalValue(_)
DecimalValue(chars) ==
    IF chars = <<>> THEN 0
    ELSE 10 * DecimalValue(SubSeq(chars, 1, Len(chars) - 1))
         + DigitValue[chars[Len(chars)]]

int_raises(chars) == \E k \in DOMAIN chars : chars[k] \notin DOMAIN DigitValue

(* the comparisons season >= a and season <= b of a number with an int *)
NumGe(v, n) == IF v.t = "int" THEN v.i >= n ELSE v.num >= n * v.den
NumLe(v, n) == IF v.t = "int" THEN v.i <= n ELSE v.num <= n * v.den

(***************************************************************************)
(* String literals of the program and of the inputs.                       *)
(***************************************************************************)
s_dataframe == <<"d", "a", "t", "a", "f", "r", "a", "m", "e">>
s_json == <<"j", "s", "o", "n">>
s_xml == <<"x", "m", "l">>
s_production == <<"p", "r", "o", "d", "u", "c", "t", "i", "o", "n">>
s_staging == <<"s", "t", "a", "g", "i", "n", "g">>
s_local == <<"l", "o", "c", "a", "l">>

DataFormats == {s_dataframe, s_json, s_xml}
Sources == {s_production, s_staging, s_local}

(***************************************************************************)
(* Session: the property setters.  A setter returns the exception it       *)
(* raises ("none" when it returns), the object after the call and whether  *)
(* it issued a warning.                                                    *)
(***************************************************************************)
Returned(self) == [raised |-> "none", self |-> self, warned |-> FALSE]
Raised(self, exc) == [raised |-> exc, self |-> self, warned |-> FALSE]

username_setter_nocheck(self, username) ==
    Returned([self EXCEPT !.username = username])

username_setter(self, username) ==
    IF ~IsStr(username) THEN Raised(self, "TypeError")
    ELSE Returned([self EXCEPT !.username = username])

key_setter(self, key) ==
    IF ~IsStr(key) THEN Raised(self, "TypeError")
    ELSE Returned([self EXCEPT !.key = key])

season_setter_store_first(self, season_arg, year) ==
    IF IsStr(season_arg) /\ isnumeric(season_arg.s) /\ int_raises(season_arg.s)
    THEN Raised(self, "ValueError")
    ELSE
      LET season == IF IsStr(season_arg) /\ isnumeric(season_arg.s)
                    THEN PyInt(DecimalValue(season_arg.s))
                    ELSE season_arg
      IN  IF IsNone(season) THEN Returned([self EXCEPT !.season = PyInt(year)])
          ELSE IF ~IsNumber(season)
               THEN Raised([self EXCEPT !.season = season], "TypeError")
          ELSE IF NumGe(season, MinSeason) /\ NumLe(season, year + 1)
               THEN Returned([self EXCEPT !.season = season])
          ELSE Raised([self EXCEPT !.season = season], "ValueError")

season_setter(self, season_arg, year) ==
    IF IsStr(season_arg) /\ isnumeric(season_arg.s) /\ int_raises(season_arg.s)
    THEN Raised(self, "ValueError")
    ELSE
      LET season == IF IsStr(season_arg) /\ isnumeric(season_arg.s)
                    THEN PyInt(DecimalValue(season_arg.s))
                    ELSE season_arg
      IN  IF IsNone(season) THEN Returned([self EXCEPT !.season = PyInt(year)])
          ELSE IF ~IsNumber(season) THEN Raised(self, "TypeError")
          ELSE IF NumGe(season, MinSeason) /\ NumLe(season, year + 1)
               THEN Returned([self EXCEPT !.season = season])
          ELSE Raised(self, "ValueError")

data_format_setter_nolower(self, data_format) ==
    IF ~IsStr(data_format) THEN Raised(self, "TypeError")
    ELSE IF lower(data_format.s) \notin DataFormats
         THEN Raised(self, "ValueError")
    ELSE Returned([self EXCEPT !.data_format = data_format])

data_format_setter(self, data_format) ==
    IF ~IsStr(data_format) THEN Raised(self, "TypeError")
    ELSE IF lower(data_format.s) \notin DataFormats
         THEN Raised(self, "ValueError")
    ELSE Returned([self EXCEPT !.data_format = PyStr(lower(data_format.s))])

source_setter(self, source) ==
    IF ~IsStr(source) THEN Raised(self, "AttributeError")
    ELSE IF lower(source.s) \in Sources
         THEN Returned([self EXCEPT !.source = source])
    ELSE [raised |-> "none",
          self |-> [self EXCEPT !.source = PyStr(s_production)],
          warned |-> TRUE]

(* Session.__init__: the five assignments in order; the first one that     *)
(* raises ends the construction.                                           *)
NewObject ==
    [username |-> Unset, key |-> Unset, season |-> Unset,
     data_format |-> Unset, source |-> Unset]

Session_init(username, key, season, data_format, source, year) ==
    LET r1 == username_setter(NewObject, username) IN
    IF r1.raised # "none" THEN r1 ELSE
    LET r2 == key_setter(r1.self, key) IN
    IF r2.raised # "none" THEN r2 ELSE
    LET r3 == season_setter(r2.self, season, year) IN
    IF r3.raised # "none" THEN r3 ELSE
    LET r4 == data_format_setter(r3.self, data_format) IN
    IF r4.raised # "none" THEN r4 ELSE
    source_setter(r4.self, source)

(***************************************************************************)
(* The server module: URL, transport and frame construction.  One reply of *)
(* the environment (server or fixture store) answers one fetch.            *)
(***************************************************************************)
DigitChar ==
    [n \in 0..9 |->
        CASE n = 0 -> "0" [] n = 1 -> "1" [] n = 2 -> "2" [] n = 3 -> "3"
          [] n = 4 -> "4" [] n = 5 -> "5" [] n = 6 -> "6" [] n = 7 -> "7"
          [] n = 8 -> "8" [] n = 9 -> "9"]

(* str(int) for a non-negative integer *)
RECURSIVE str(_)
str(n) ==
    IF n < 10 THEN <<DigitChar[n]>>
    ELSE str(n \div 10) \o <<DigitChar[n % 10]>>

FailReply == [fail |-> TRUE, code |-> 0, pageTotal |-> 0, nrows |-> 0]
NotModifiedReply == [fail |-> FALSE, code |-> 304, pageTotal |-> 0, nrows |-> 0]
FreshReply(pages, n) ==
    [fail |-> FALSE, code |-> 200, pageTotal |-> pages, nrows |-> n]

SimpleReplies == {FailReply, NotModifiedReply, FreshReply(1, 1)}
PageReplies ==
    {FailReply, NotModifiedReply}
    \cup {FreshReply(p, n) : p \in 1..MaxPages, n \in 1..MaxRows}

build_url(sn, cmd, args) ==
    [source |-> sn.source, season |-> sn.season, cmd |-> cmd, args |-> args]

LocalUrl == [source |-> PyStr(s_local)]

(* the rows of the k-th fetch of a call *)
RowsOf(serial, n) == [j \in 1..n |-> <<serial, j>>]

send_local_request(sn, url, cmd, reply, serial) ==
    [kind |-> "dict", code |-> 200, url |-> LocalUrl, requested_url |-> url,
     mod_since |-> PyNone, only_mod_since |-> PyNone,
     local_data |-> TRUE, local_time |-> TRUE,
     text |-> TRUE, text_format |-> sn.data_format, frame_type |-> cmd,
     time_downloaded |-> serial,
     pageTotal |-> reply.pageTotal, rows |-> RowsOf(serial, reply.nrows)]

send_http_request(sn, url, cmd, mod_since, only_mod_since, reply, serial) ==
    [kind |-> "dict", code |-> reply.code, url |-> url, requested_url |-> url,
     mod_since |-> mod_since, only_mod_since |-> only_mod_since,
     local_data |-> FALSE, local_time |-> FALSE,
     text |-> (reply.code = 200), text_format |-> sn.data_format,
     frame_type |-> cmd, time_downloaded |-> serial,
     pageTotal |-> reply.pageTotal,
     rows |-> IF reply.code = 200 THEN RowsOf(serial, reply.nrows) ELSE <<>>]

Dframe(response) ==
    [kind |-> "Dframe", attr |-> response, rows |-> response.rows,
     index |-> [j \in 1..Len(response.rows) |-> j - 1]]

(***************************************************************************)
(* api._send_request.  The result of a call is the exception it raised     *)
(* ("none" when it returned), the fetches it issued, in order, and the     *)
(* value it returned.                                                      *)
(***************************************************************************)
NoValue == [kind |-> "none"]

Fetch(via, cmd, args, mod_since, only_mod_since, reply) ==
    [via |-> via, cmd |-> cmd, args |-> args, mod_since |-> mod_since,
     only_mod_since |-> only_mod_since, reply |-> reply]

send_request_frame_unless_json(sn, cmd, args, mod_since, only_mod_since, reply, serial) ==
    LET url == build_url(sn, cmd, args)
        is_local == sn.source = PyStr(s_local)
        fetch == Fetch(IF is_local THEN "local" ELSE "http", cmd, args,
                       mod_since, only_mod_since, reply)
        response ==
            IF is_local
            THEN send_local_request(sn, url, cmd, reply, serial)
            ELSE send_http_request(sn, url, cmd, mod_since, only_mod_since,
                                   reply, serial)
    IN  IF reply.fail
        THEN [raised |-> "FetchError", io |-> <<fetch>>, value |-> NoValue]
        ELSE [raised |-> "none", io |-> <<fetch>>,
              value |-> IF sn.data_format # PyStr(s_json)
                        THEN Dframe(response) ELSE response]

send_request(sn, cmd, args, mod_since, only_mod_since, reply, serial) ==
    LET url == build_url(sn, cmd, args)
        is_local == sn.source = PyStr(s_local)
        fetch == Fetch(IF is_local THEN "local" ELSE "http", cmd, args,
                       mod_since, only_mod_since, reply)
        response ==
            IF is_local
            THEN send_local_request(sn, url, cmd, reply, serial)
            ELSE send_http_request(sn, url, cmd, mod_since, only_mod_since,
                                   reply, serial)
    IN  IF reply.fail
        THEN [raised |-> "FetchError", io |-> <<fetch>>, value |-> NoValue]
        ELSE [raised |-> "none", io |-> <<fetch>>,
              value |-> IF sn.data_format = PyStr(s_dataframe)
                        THEN Dframe(response) ELSE response]

ArgumentError(io) ==
    [raised |-> "ArgumentError", io |-> io, value |-> NoValue]

Given(v) == ~IsNone(v)

(***************************************************************************)
(* The endpoint functions.  a is the record of the caller's arguments.     *)
(***************************************************************************)
get_status(sn, reply) ==
    send_request(sn, "status", PyNone, PyNone, PyNone, reply, 1)

get_season(sn, reply) ==
    send_request(sn, "season", PyNone, PyNone, PyNone, reply, 1)

get_districts(sn, a, reply) ==
    send_request(sn, "districts", PyNone, a.mod_since, a.only_mod_since,
                 reply, 1)

events_args(a) ==
    [eventCode |-> a.event, teamNumber |-> a.team,
     districtCode |-> a.district, excludeDistrict |-> a.exclude_district]

get_events_fetch_first(sn, a, reply) ==
    LET r == send_request(sn, "events", events_args(a), a.mod_since,
                          a.only_mod_since, reply, 1)
    IN  IF Given(a.event) /\ (Given(a.team) \/ Given(a.district)
                              \/ Given(a.exclude_district))
        THEN ArgumentError(r.io)
        ELSE IF Given(a.district) /\ Given(a.exclude_district)
        THEN ArgumentError(r.io)
        ELSE r

get_events_no_district_rule(sn, a, reply) ==
    IF Given(a.event) /\ (Given(a.team) \/ Given(a.district)
                          \/ Given(a.exclude_district))
    THEN ArgumentError(<<>>)
    ELSE send_request(sn, "events", events_args(a), a.mod_since,
                      a.only_mod_since, reply, 1)

get_events(sn, a, reply) ==
    IF Given(a.event) /\ (Given(a.team) \/ Given(a.district)
                          \/ Given(a.exclude_district))
    THEN ArgumentError(<<>>)
    ELSE IF Given(a.district) /\ Given(a.exclude_district)
    THEN ArgumentError(<<>>)
    ELSE send_request(sn, "events", events_args(a), a.mod_since,
                      a.only_mod_since, reply, 1)

teams_args(a, page) ==
    [teamNumber |-> a.team, eventCode |-> a.event,
     districtCode |-> a.district, state |-> a.state, page |-> page]

(* the loop of get_teams over page_num = from .. pages; replies[k] answers *)
(* the k-th fetch of the call                                              *)
RECURSIVE teams_pages_skip_failed(_, _, _, _, _, _)
teams_pages_skip_failed(sn, a, replies, page_num, pages, acc) ==
    IF page_num > pages THEN acc
    ELSE LET r == send_request(sn, "teams", teams_args(a, PyStr(str(page_num))),
                               a.mod_since, a.only_mod_since,
                               replies[page_num], page_num)
         IN  teams_pages_skip_failed(sn, a, replies, page_num + 1, pages,
                 [raised |-> "none", io |-> acc.io \o r.io,
                  lst |-> IF r.raised # "none" THEN acc.lst
                          ELSE Append(acc.lst, r.value)])

RECURSIVE teams_pages_stop_early(_, _, _, _, _, _)
teams_pages_stop_early(sn, a, replies, page_num, pages, acc) ==
    IF page_num >= pages THEN acc
    ELSE LET r == send_request(sn, "teams", teams_args(a, PyStr(str(page_num))),
                               a.mod_since, a.only_mod_since,
                               replies[page_num], page_num)
         IN  IF r.raised # "none"
             THEN [raised |-> r.raised, io |-> acc.io \o r.io, lst |-> acc.lst]
             ELSE teams_pages_stop_early(sn, a, replies, page_num + 1, pages,
                      [raised |-> "none", io |-> acc.io \o r.io,
                       lst |-> Append(acc.lst, r.value)])

RECURSIVE teams_pages(_, _, _, _, _, _)
teams_pages(sn, a, replies, page_num, pages, acc) ==
    IF page_num > pages THEN acc
    ELSE LET r == send_request(sn, "teams", teams_args(a, PyStr(str(page_num))),
                               a.mod_since, a.only_mod_since,
                               replies[page_num], page_num)
         IN  IF r.raised # "none"
             THEN [raised |-> r.raised, io |-> acc.io \o r.io, lst |-> acc.lst]
             ELSE teams_pages(sn, a, replies, page_num + 1, pages,
                              [raised |-> "none", io |-> acc.io \o r.io,
                               lst |-> Append(acc.lst, r.value)])

RECURSIVE concat_rows_reversed(_)
concat_rows_reversed(lst) ==
    IF lst = <<>> THEN <<>>
    ELSE concat_rows_reversed(Tail(lst)) \o lst[1].rows

RECURSIVE concat_rows(_)
concat_rows(lst) ==
    IF lst = <<>> THEN <<>>
    ELSE lst[1].rows \o concat_rows(Tail(lst))

(* get_teams with one of its steps changed: "ignore_page" leaves out the   *)
(* test of the page argument, "first_attr" attaches the first page's attr  *)
get_teams_changed(sn, a, replies, change) ==
    IF Given(a.team) /\ (Given(a.event) \/ Given(a.district)
                         \/ Given(a.state))
    THEN ArgumentError(<<>>)
    ELSE
      LET first == send_request(sn, "teams", teams_args(a, a.page),
                                a.mod_since, a.only_mod_since, replies[1], 1)
      IN  IF first.raised # "none" THEN first
          ELSE IF \/ first.value.kind = "dict"
                  \/ Given(a.page) /\ change # "ignore_page"
                  \/ first.value.attr.code = 304
          THEN first
          ELSE
            LET pages == first.value.attr.pageTotal IN
            IF pages = 1 THEN first
            ELSE
              LET all == teams_pages(sn, a, replies, 2, pages,
                                     [raised |-> "none", io |-> first.io,
                                      lst |-> <<first.value>>])
                  rows == concat_rows(all.lst)
              IN  IF all.raised # "none"
                  THEN [raised |-> all.raised, io |-> all.io,
                        value |-> NoValue]
                  ELSE [raised |-> "none", io |-> all.io,
                        value |->
                          [kind |-> "Dframe",
                           attr |-> IF change = "first_attr"
                                    THEN all.lst[1].attr
                                    ELSE all.lst[Len(all.lst)].attr,
                           rows |-> rows,
                           index |-> [j \in 1..Len(rows) |-> j - 1]]]

get_teams_ignore_page(sn, a, replies) ==
    get_teams_changed(sn, a, replies, "ignore_page")

get_teams_first_attr(sn, a, replies) ==
    get_teams_changed(sn, a, replies, "first_attr")

get_teams_page_rule(sn, a, replies) ==
    IF Given(a.team) /\ (Given(a.event) \/ Given(a.district)
                         \/ Given(a.state) \/ Given(a.page))
    THEN ArgumentError(<<>>)
    ELSE send_request(sn, "teams", teams_args(a, a.page), a.mod_since,
                      a.only_mod_since, replies[1], 1)

get_teams(sn, a, replies) ==
    IF Given(a.team) /\ (Given(a.event) \/ Given(a.district)
                         \/ Given(a.state))
    THEN ArgumentError(<<>>)
    ELSE
      LET first == send_request(sn, "teams", teams_args(a, a.page),
                                a.mod_since, a.only_mod_since, replies[1], 1)
      IN  IF first.raised # "none" THEN first
          ELSE IF \/ first.value.kind = "dict"
                  \/ Given(a.page)
                  \/ first.value.attr.code = 304
          THEN first
          ELSE
            LET pages == first.value.attr.pageTotal IN
            IF pages = 1 THEN first
            ELSE
              LET all == teams_pages(sn, a, replies, 2, pages,
                                     [raised |-> "none", io |-> first.io,
                                      lst |-> <<first.value>>])
                  rows == concat_rows(all.lst)
              IN  IF all.raised # "none"
                  THEN [raised |-> all.raised, io |-> all.io,
                        value |-> NoValue]
                  ELSE [raised |-> "none", io |-> all.io,
                        value |->
                          [kind |-> "Dframe",
                           attr |-> all.lst[Len(all.lst)].attr,
                           rows |-> rows,
                           index |-> [j \in 1..Len(rows) |-> j - 1]]]

schedule_args(a) ==
    [eventCode |-> a.event, teamNumber |-> a.team,
     tournamentLevel |-> a.level, start |-> a.start, end |-> a.end]

get_schedule(sn, a, reply) ==
    send_request(sn, "schedule", schedule_args(a), a.mod_since,
                 a.only_mod_since, reply, 1)

hybrid_args(a) ==
    [eventCode |-> a.event, tournamentLevel |-> a.level,
     hybrid |-> PyStr(<<"h", "y", "b", "r", "i", "d">>),
     start |-> a.start, end |-> a.end]

get_hybrid(sn, a, reply) ==
    LET r == send_request(sn, "schedule", hybrid_args(a), a.mod_since,
                          a.only_mod_since, reply, 1)
    IN  IF r.raised # "none" THEN r
        ELSE IF r.value.kind = "dict"
        THEN [r EXCEPT !.value.frame_type = "hybrid"]
        ELSE [r EXCEPT !.value.attr.frame_type = "hybrid"]

matches_args(a) ==
    [eventCode |-> a.event, tournamentLevel |-> a.level,
     teamNumber |-> a.team, matchNumber |-> a.match,
     start |-> a.start, end |-> a.end]

get_matches_no_level_rule(sn, a, reply) ==
    IF Given(a.team) /\ Given(a.match)
    THEN ArgumentError(<<>>)
    ELSE IF (Given(a.start) \/ Given(a.end)) /\ Given(a.match)
    THEN ArgumentError(<<>>)
    ELSE send_request(sn, "matches", matches_args(a), a.mod_since,
                      a.only_mod_since, reply, 1)

get_matches(sn, a, reply) ==
    IF (Given(a.match) \/ Given(a.start) \/ Given(a.end)) /\ IsNone(a.level)
    THEN ArgumentError(<<>>)
    ELSE IF Given(a.team) /\ Given(a.match)
    THEN ArgumentError(<<>>)
    ELSE IF (Given(a.start) \/ Given(a.end)) /\ Given(a.match)
    THEN ArgumentError(<<>>)
    ELSE send_request(sn, "matches", matches_args(a), a.mod_since,
                      a.only_mod_since, reply, 1)

get_scores_start_team_rule(sn, a, reply) ==
    IF Given(a.team) /\ (Given(a.match) \/ Given(a.start))
    THEN ArgumentError(<<>>)
    ELSE IF (Given(a.start) \/ Given(a.end)) /\ Given(a.match)
    THEN ArgumentError(<<>>)
    ELSE send_request(sn, "scores", matches_args(a), a.mod_since,
                      a.only_mod_since, reply, 1)

get_scores(sn, a, reply) ==
    IF Given(a.team) /\ Given(a.match)
    THEN ArgumentError(<<>>)
    ELSE IF (Given(a.start) \/ Given(a.end)) /\ Given(a.match)
    THEN ArgumentError(<<>>)
    ELSE send_request(sn, "scores", matches_args(a), a.mod_since,
                      a.only_mod_since, reply, 1)

get_alliances(sn, a, reply) ==
    send_request(sn, "alliances", [eventCode |-> a.event], a.mod_since,
                 a.only_mod_since, reply, 1)

rankings_args(a) ==
    [eventCode |-> a.event, teamNumber |-> a.team, top |-> a.top]

get_rankings_no_rule(sn, a, reply) ==
    send_request(sn, "rankings", rankings_args(a), a.mod_since,
                 a.only_mod_since, reply, 1)

get_rankings(sn, a, reply) ==
    IF Given(a.team) /\ Given(a.top)
    THEN ArgumentError(<<>>)
    ELSE send_request(sn, "rankings", rankings_args(a), a.mod_since,
                      a.only_mod_since, reply, 1)

(***************************************************************************)
(* Inputs.                                                                 *)
(***************************************************************************)
MaxYear == StartYear + MaxTicks

UsernameInputs == {PyStr(<<"u">>), PyStr(<<>>), PyInt(7), PyNone}
KeyInputs == {PyStr(<<"k">>), PyStr(<<>>), PyInt(7), PyNone}

SeasonYears == (MinSeason - 1)..(MaxYear + 2)
SeasonInputs ==
    {PyNone}
    \cup {PyInt(y) : y \in SeasonYears}
    \cup {PyStr(str(y)) : y \in SeasonYears}
    \cup {PyStr(<<"a", "b", "c">>), PyStr(<<"sup2">>), PyStr(<<>>),
          PyFloat(2 * MinSeason + 1, 2), PyFloat(2 * MinSeason - 1, 2)}

DataFormatInputs ==
    {PyStr(s_dataframe), PyStr(s_json), PyStr(s_xml),
     PyStr(<<"J", "S", "O", "N">>), PyStr(<<"X", "m", "l">>),
     PyStr(<<"c", "s", "v">>), PyInt(7), PyNone}

SourceInputs ==
    {PyStr(s_production), PyStr(s_staging), PyStr(s_local),
     PyStr(<<"L", "O", "C", "A", "L">>), PyStr(<<"t", "e", "s", "t">>),
     PyNone}

Opt(v) == {PyNone, v}
v_event == PyStr(<<"P", "N", "C", "M", "P">>)
v_team == PyStr(<<"2", "9", "1", "0">>)
v_district == PyStr(<<"P", "N", "W">>)
v_state == PyStr(<<"O", "r", "e", "g", "o", "n">>)
v_page == PyStr(<<"2">>)
v_match == PyStr(<<"5">>)
v_date == PyStr(<<"F", "r", "i">>)
v_qual == PyStr(<<"q", "u", "a", "l">>)
v_playoff == PyStr(<<"p", "l", "a", "y", "o", "f", "f">>)
LevelInputs == {v_qual, v_playoff, PyNone}

(***************************************************************************)
(* State.  session is the Session object the caller holds, last is the     *)
(* operation that has just returned or raised.                             *)
(***************************************************************************)
NoSession == [exists |-> FALSE]
Idle == [op |-> "idle"]

Init ==
    /\ current_year = StartYear
    /\ session = NoSession
    /\ last = Idle

(* datetime.date.today() moves into the next year *)
NewYear ==
    /\ current_year < MaxYear
    /\ current_year' = current_year + 1
    /\ UNCHANGED <<session, last>>

(* the caller goes on after the operation *)
Continue ==
    /\ last # Idle
    /\ last' = Idle
    /\ UNCHANGED <<current_year, session>>

(* Session(...): the caller constructs its Session once and mutates it     *)
(* afterwards; a construction that raises leaves the caller without one.   *)
Construct ==
    /\ last = Idle
    /\ session = NoSession
    /\ \E u \in UsernameInputs, k \in KeyInputs, se \in SeasonInputs,
          f \in DataFormatInputs, so \in SourceInputs :
         LET r == Session_init(u, k, se, f, so, current_year)
         IN  /\ session' = IF r.raised = "none" THEN r.self ELSE NoSession
             /\ last' = [op |-> "Session",
                         args |-> [username |-> u, key |-> k, season |-> se,
                                   data_format |-> f, source |-> so],
                         year |-> current_year, before |-> NoSession,
                         raised |-> r.raised, warned |-> r.warned]
    /\ UNCHANGED current_year

Assigned(name, v, r) ==
    /\ session' = r.self
    /\ last' = [op |-> name, args |-> [value |-> v], year |-> current_year,
                before |-> session, raised |-> r.raised, warned |-> r.warned]
    /\ UNCHANGED current_year

AssignUsername ==
    /\ last = Idle
    /\ session # NoSession
    /\ \E v \in UsernameInputs :
         Assigned("username", v, username_setter(session, v))

AssignKey ==
    /\ last = Idle
    /\ session # NoSession
    /\ \E v \in KeyInputs : Assigned("key", v, key_setter(session, v))

AssignSeason ==
    /\ last = Idle
    /\ session # NoSession
    /\ \E v \in SeasonInputs :
         Assigned("season", v, season_setter(session, v, current_year))

AssignDataFormat ==
    /\ last = Idle
    /\ session # NoSession
    /\ \E v \in DataFormatInputs :
         Assigned("data_format", v, data_format_setter(session, v))

AssignSource ==
    /\ last = Idle
    /\ session # NoSession
    /\ \E v \in SourceInputs :
         Assigned("source", v, source_setter(session, v))

Next ==
    \/ NewYear
    \/ Continue
    \/ Construct
    \/ AssignUsername
    \/ AssignKey
    \/ AssignSeason
    \/ AssignDataFormat
    \/ AssignSource

Spec == Init /\ [][Next]_vars

(***************************************************************************)
(* Endpoint calls on a constructed Session.                                *)
(***************************************************************************)
Called(name, a, r) ==
    /\ last' = [op |-> name, args |-> a, raised |-> r.raised, io |-> r.io,
                value |-> r.value, data_format |-> session.data_format,
                source |-> session.source]
    /\ UNCHANGED <<current_year, session>>

CondArgs == [mod_since : Opt(v_date), only_mod_since : Opt(v_date)]

(* the replies to the fetches of one get_teams call: the first page, then  *)
(* the later pages, one of which may fail                                  *)
TeamsReplies ==
    {[k \in 1..MaxPages |->
        IF k = 1 THEN first
        ELSE IF k = failAt THEN FailReply
        ELSE FreshReply(first.pageTotal, n)] :
     first \in PageReplies, failAt \in {0} \cup 2..MaxPages, n \in 1..MaxRows}

CallGetStatus ==
    /\ last = Idle
    /\ \E reply \in SimpleReplies :
         Called("get_status", [none |-> PyNone], get_status(session, reply))

CallGetSeason ==
    /\ last = Idle
    /\ \E reply \in SimpleReplies :
         Called("get_season", [none |-> PyNone], get_season(session, reply))

CallGetDistricts ==
    /\ last = Idle
    /\ \E a \in CondArgs, reply \in SimpleReplies :
         Called("get_districts", a, get_districts(session, a, reply))

CallGetEvents ==
    /\ last = Idle
    /\ \E a \in [event : Opt(v_event), team : Opt(v_team),
                 district : Opt(v_district),
                 exclude_district : Opt(PyInt(1)),
                 mod_since : Opt(v_date), only_mod_since : Opt(v_date)],
          reply \in SimpleReplies :
         Called("get_events", a, get_events(session, a, reply))

CallGetTeams ==
    /\ last = Idle
    /\ \E a \in [team : Opt(v_team), event : Opt(v_event),
                 district : Opt(v_district), state : Opt(v_state),
                 page : Opt(v_page),
                 mod_since : Opt(v_date), only_mod_since : Opt(v_date)],
          replies \in TeamsReplies :
         Called("get_teams", a, get_teams(session, a, replies))

CallGetSchedule ==
    /\ last = Idle
    /\ \E a \in [event : {v_event}, level : LevelInputs, team : Opt(v_team),
                 start : Opt(PyInt(1)), end : Opt(PyInt(9)),
                 mod_since : Opt(v_date), only_mod_since : Opt(v_date)],
          reply \in SimpleReplies :
         Called("get_schedule", a, get_schedule(session, a, reply))

CallGetHybrid ==
    /\ last = Idle
    /\ \E a \in [event : {v_event}, level : LevelInputs,
                 start : Opt(PyInt(1)), end : Opt(PyInt(9)),
                 mod_since : Opt(v_date), only_mod_since : Opt(v_date)],
          reply \in SimpleReplies :
         Called("get_hybrid", a, get_hybrid(session, a, reply))

MatchArgs ==
    [event : {v_event}, level : LevelInputs, team : Opt(v_team),
     match : Opt(v_match), start : Opt(PyInt(1)), end : Opt(PyInt(9)),
     mod_since : Opt(v_date), only_mod_since : Opt(v_date)]

CallGetMatches ==
    /\ last = Idle
    /\ \E a \in MatchArgs, reply \in SimpleReplies :
         Called("get_matches", a, get_matches(session, a, reply))

CallGetScores ==
    /\ last = Idle
    /\ \E a \in MatchArgs, reply \in SimpleReplies :
         Called("get_scores", a, get_scores(session, a, reply))

CallGetAlliances ==
    /\ last = Idle
    /\ \E a \in [event : {v_event}, mod_since : Opt(v_date),
                 only_mod_since : Opt(v_date)],
          reply \in SimpleReplies :
         Called("get_alliances", a, get_alliances(session, a, reply))

CallGetRankings ==
    /\ last = Idle
    /\ \E a \in [event : {v_event}, team : Opt(v_team), top : Opt(PyInt(8)),
                 mod_since : Opt(v_date), only_mod_since : Opt(v_date)],
          reply \in SimpleReplies :
         Called("get_rankings", a, get_rankings(session, a, reply))

(* a Session constructed with the default season and any accepted format   *)
(* and source                                                              *)
ApiInit ==
    /\ current_year = StartYear
    /\ last = Idle
    /\ \E f \in DataFormatInputs, so \in SourceInputs :
         LET r == Session_init(PyStr(<<"u">>), PyStr(<<"k">>), PyNone, f, so,
                               StartYear)
         IN  /\ r.raised = "none"
             /\ session = r.self

ApiNext ==
    \/ Continue
    \/ AssignDataFormat
    \/ AssignSource
    \/ CallGetStatus
    \/ CallGetSeason
    \/ CallGetDistricts
    \/ CallGetEvents
    \/ CallGetTeams
    \/ CallGetSchedule
    \/ CallGetHybrid
    \/ CallGetMatches
    \/ CallGetScores
    \/ CallGetAlliances
    \/ CallGetRankings

ApiSpec == ApiInit /\ [][ApiNext]_vars

(***************************************************************************)
(* Properties of the endpoint functions (checked under ApiSpec).           *)
(***************************************************************************)
RaisedArgumentError == last.raised = "ArgumentError"
OneFetchFor(cmd) == Len(last.io) = 1 /\ last.io[1].cmd = cmd

(* C1: a call of get_events, get_teams, get_matches, get_scores or         *)
(* get_rankings that ends in ArgumentError has issued no fetch, neither a  *)
(* network request nor a local fixture load.                               *)
C1_NoFetchBeforeArgumentError ==
    (/\ last.op \in {"get_events", "get_teams", "get_matches", "get_scores",
                     "get_rankings"}
     /\ RaisedArgumentError)
    => last.io = <<>>

C1_Witness ==
    /\ last.op = "get_events"
    /\ Given(last.args.event) /\ Given(last.args.team)
    /\ RaisedArgumentError
    /\ last.io = <<>>

(* C2: get_events raises ArgumentError exactly when event comes with one   *)
(* of team, district, exclude_district, or district comes with             *)
(* exclude_district; otherwise it issues exactly one fetch for "events".   *)
C2_EventsInvalid(a) ==
    \/ Given(a.event) /\ Cardinality({x \in {"team", "district",
                                             "exclude_district"} :
                                       Given(a[x])}) >= 1
    \/ Cardinality({x \in {"district", "exclude_district"} :
                     Given(a[x])}) = 2

C2_EventsRule ==
    last.op = "get_events"
    => /\ RaisedArgumentError <=> C2_EventsInvalid(last.args)
       /\ ~C2_EventsInvalid(last.args) => OneFetchFor("events")

C2_Witness ==
    /\ last.op = "get_events"
    /\ IsNone(last.args.event) /\ IsNone(last.args.team)
    /\ Given(last.args.district) /\ Given(last.args.exclude_district)
    /\ RaisedArgumentError

(* C3: get_teams raises ArgumentError exactly when team comes with one of  *)
(* event, district, state; whether page is given makes no difference.      *)
C3_TeamsRule ==
    last.op = "get_teams"
    => (RaisedArgumentError
        <=> /\ Given(last.args.team)
            /\ \E x \in {"event", "district", "state"} : Given(last.args[x]))

C3_Witness ==
    /\ last.op = "get_teams"
    /\ Given(last.args.team) /\ Given(last.args.page)
    /\ ~RaisedArgumentError
    /\ Len(last.io) = 1

(* C4 as claimed: in get_matches and get_scores, team with match and match *)
(* with start or end raise ArgumentError, and start and/or end with team   *)
(* and no match is accepted.                                               *)
C4_Original ==
    last.op \in {"get_matches", "get_scores"}
    => /\ (Given(last.args.team) /\ Given(last.args.match))
            => RaisedArgumentError
       /\ (Given(last.args.match)
           /\ (Given(last.args.start) \/ Given(last.args.end)))
            => RaisedArgumentError
       /\ (/\ Given(last.args.start) \/ Given(last.args.end)
           /\ Given(last.args.team)
           /\ IsNone(last.args.match))
            => ~RaisedArgumentError

(* C4 amended: in get_matches and get_scores, team with match and match    *)
(* with start or end raise ArgumentError; start and/or end with team and   *)
(* no match is accepted by get_scores, and by get_matches when level is    *)
(* not None.                                                               *)
C4_MatchRules ==
    last.op \in {"get_matches", "get_scores"}
    => /\ (Given(last.args.team) /\ Given(last.args.match))
            => RaisedArgumentError
       /\ (Given(last.args.match)
           /\ (Given(last.args.start) \/ Given(last.args.end)))
            => RaisedArgumentError
       /\ (/\ Given(last.args.start) \/ Given(last.args.end)
           /\ Given(last.args.team)
           /\ IsNone(last.args.match)
           /\ last.op = "get_matches" => Given(last.args.level))
            => ~RaisedArgumentError

C4_Witness ==
    /\ last.op = "get_scores"
    /\ Given(last.args.team) /\ Given(last.args.start)
    /\ IsNone(last.args.match)
    /\ IsNone(last.args.level)
    /\ ~RaisedArgumentError
    /\ Len(last.io) = 1

(* C5: get_matches raises ArgumentError whenever match, start or end is    *)
(* given and level is None; with level at its default "qual" only the      *)
(* rules on match decide; with level None and none of match, start, end    *)
(* the call is accepted and fetches.                                       *)
C5_LevelRule ==
    last.op = "get_matches"
    => /\ (/\ IsNone(last.args.level)
           /\ \E x \in {"match", "start", "end"} : Given(last.args[x]))
            => RaisedArgumentError
       /\ last.args.level = v_qual
            => (RaisedArgumentError
                <=> /\ Given(last.args.match)
                    /\ \E x \in {"team", "start", "end"} : Given(last.args[x]))
       /\ (/\ IsNone(last.args.level)
           /\ \A x \in {"match", "start", "end"} : IsNone(last.args[x]))
            => ~RaisedArgumentError /\ OneFetchFor("matches")

C5_Witness ==
    /\ last.op = "get_matches"
    /\ IsNone(last.args.level)
    /\ Given(last.args.start)
    /\ IsNone(last.args.match) /\ IsNone(last.args.team)
    /\ RaisedArgumentError

(* C6: get_rankings raises ArgumentError exactly when team and top are     *)
(* both given; otherwise it issues exactly one fetch for "rankings".       *)
C6_RankingsRule ==
    last.op = "get_rankings"
    => /\ RaisedArgumentError
            <=> (Given(last.args.team) /\ Given(last.args.top))
       /\ ~(Given(last.args.team) /\ Given(last.args.top))
            => OneFetchFor("rankings")

C6_Witness ==
    /\ last.op = "get_rankings"
    /\ Given(last.args.team) /\ Given(last.args.top)
    /\ RaisedArgumentError

(***************************************************************************)
(* Properties of Session (checked under Spec).                             *)
(***************************************************************************)
(* the stored string is the argument with its upper-case letters replaced  *)
LowerCaseOf(stored, arg) ==
    /\ Len(stored) = Len(arg)
    /\ \A k \in DOMAIN arg :
         \/ arg[k] \notin DOMAIN UpperToLower /\ stored[k] = arg[k]
         \/ arg[k] \in DOMAIN UpperToLower /\ stored[k] = UpperToLower[arg[k]]

(* the other four constructor arguments are acceptable *)
OthersAccepted(a) ==
    /\ IsStr(a.username)
    /\ IsStr(a.key)
    /\ IsStr(a.data_format)
    /\ \E f \in DataFormats : LowerCaseOf(f, a.data_format.s)
    /\ IsStr(a.source)

(* the number a season argument denotes: an int, a float (as a fraction),  *)
(* or a string that is the decimal representation of a year                *)
DenotesYear(v, y) ==
    \/ v = PyInt(y)
    \/ v = PyStr(str(y))

SeasonInRange(v, year) ==
    \/ \E y \in MinSeason..(year + 1) : DenotesYear(v, y)
    \/ /\ v.t = "float"
       /\ MinSeason * v.den <= v.num
       /\ v.num <= (year + 1) * v.den

(* C7 as claimed: construction succeeds for every season in                *)
(* [2015, current_year+1] and raises ValueError for every other value,     *)
(* non-numeric strings included.                                           *)
C7_SeasonRange ==
    (/\ last.op = "Session"
     /\ OthersAccepted(last.args)
     /\ Given(last.args.season))
    => IF SeasonInRange(last.args.season, last.year)
       THEN last.raised = "none" /\ session # NoSession
       ELSE last.raised = "ValueError" /\ session = NoSession

(* C8: a non-string username or key makes the construction, and a later    *)
(* assignment, raise TypeError, and no Session holds a non-string          *)
(* username or key.                                                        *)
C8_CredentialsAreStrings ==
    /\ (/\ last.op = "Session"
        /\ ~IsStr(last.args.username) \/ ~IsStr(last.args.key))
         => last.raised = "TypeError" /\ session = NoSession
    /\ (/\ last.op \in {"username", "key"}
        /\ ~IsStr(last.args.value))
         => last.raised = "TypeError" /\ session = last.before
    /\ session # NoSession
         => IsStr(session.username) /\ IsStr(session.key)

C8_Witness ==
    /\ last.op = "Session"
    /\ IsStr(last.args.username)
    /\ ~IsStr(last.args.key)
    /\ Given(last.args.season) /\ ~IsNumber(last.args.season)
    /\ last.raised = "TypeError"
    /\ session = NoSession

(* C9 as claimed: after a successful construction every field equals the   *)
(* argument passed for it.                                                 *)
C9_Original ==
    (last.op = "Session" /\ last.raised = "none")
    => /\ session.username = last.args.username
       /\ session.key = last.args.key
       /\ session.season = last.args.season
       /\ session.data_format = last.args.data_format
       /\ session.source = last.args.source

(* C9 amended: after a successful construction username and key equal the  *)
(* arguments; season equals a numeric argument, is the integer a numeric   *)
(* string denotes, and is the current year for None; data_format is the    *)
(* argument in lower case; source equals the argument when that is         *)
(* production, staging or local in any letter case, else "production".     *)
C9_RoundTrip ==
    (last.op = "Session" /\ last.raised = "none")
    => /\ session.username = last.args.username
       /\ session.key = last.args.key
       /\ IsNumber(last.args.season) => session.season = last.args.season
       /\ IsStr(last.args.season)
            => /\ session.season.t = "int"
               /\ str(session.season.i) = last.args.season.s
       /\ IsNone(last.args.season) => session.season = PyInt(last.year)
       /\ session.data_format.t = "str"
       /\ session.data_format.s \in DataFormats
       /\ LowerCaseOf(session.data_format.s, last.args.data_format.s)
       /\ IF \E x \in Sources : LowerCaseOf(x, last.args.source.s)
          THEN session.source = last.args.source
          ELSE session.source = PyStr(s_production) /\ last.warned

C9_Witness ==
    /\ last.op = "Session"
    /\ last.raised = "none"
    /\ IsStr(last.args.season)
    /\ last.args.data_format = PyStr(<<"J", "S", "O", "N">>)
    /\ session.data_format = PyStr(s_json)
    /\ session.season.t = "int"

(* C10 as claimed: whenever a Session exists its season is an integer in   *)
(* [2015, current_year+1] and its data_format is dataframe, json or xml    *)
(* in lower case.                                                          *)
C10_SessionInvariant ==
    session # NoSession
    => /\ session.season.t = "int"
       /\ session.season.i \in MinSeason..(current_year + 1)
       /\ session.data_format \in {PyStr(f) : f \in DataFormats}

(* C11 as claimed: whenever a Session exists its username and key are      *)
(* non-empty strings, so an empty string is rejected at construction and   *)
(* on assignment.                                                          *)
C11_CredentialsNonEmpty ==
    session # NoSession
    => /\ IsStr(session.username) /\ Len(session.username.s) > 0
       /\ IsStr(session.key) /\ Len(session.key.s) > 0

(* C12 as claimed: whenever a Session exists its source is exactly         *)
(* "production", "staging" or "local"; an assignment of any other value    *)
(* raises nothing and leaves "production", with a warning.                 *)
C12_SourceIsOneOfThree ==
    /\ session # NoSession
         => session.source \in {PyStr(x) : x \in Sources}
    /\ (/\ last.op = "source"
        /\ last.args.value \notin {PyStr(x) : x \in Sources})
         => /\ last.raised = "none"
            /\ last.warned
            /\ session.source = PyStr(s_production)

(***************************************************************************)
(* Properties of the fetches of a call (checked under ApiSpec).            *)
(***************************************************************************)
IsCall == last.op \notin {"idle", "data_format", "source"}

(* the status of the response to a fetch that did not fail: a fixture is   *)
(* always delivered with status 200                                        *)
FetchStatus(f) == IF f.via = "local" THEN 200 ELSE f.reply.code

(* C13: get_teams fetches a page after the first only when the format is   *)
(* dataframe, no page argument was passed and the first response has       *)
(* status 200; after a first response with another status the call issues  *)
(* no further fetch and returns the first result.                          *)
C13_PaginationOnlyWhen ==
    last.op = "get_teams"
    => /\ Len(last.io) >= 2
            => /\ last.data_format = PyStr(s_dataframe)
               /\ IsNone(last.args.page)
               /\ ~last.io[1].reply.fail
               /\ FetchStatus(last.io[1]) = 200
       /\ (/\ Len(last.io) >= 1
           /\ ~last.io[1].reply.fail
           /\ FetchStatus(last.io[1]) # 200)
            => /\ Len(last.io) = 1
               /\ last.raised = "none"
               /\ LET env == IF last.value.kind = "Dframe"
                             THEN last.value.attr ELSE last.value
                  IN  /\ env.code = FetchStatus(last.io[1])
                      /\ env.time_downloaded = 1
                      /\ env.requested_url.args.page = last.args.page

C13_Witness ==
    /\ last.op = "get_teams"
    /\ Len(last.io) = 3
    /\ last.raised = "none"
    /\ last.data_format = PyStr(s_dataframe)
    /\ IsNone(last.args.page)
    /\ FetchStatus(last.io[1]) = 200

RECURSIVE TotalRows(_)
TotalRows(io) ==
    IF io = <<>> THEN 0 ELSE io[1].reply.nrows + TotalRows(Tail(io))

(* row <<p, i>> is the i-th row of the p-th fetch of the call *)
RowBefore(r1, r2) == r1[1] < r2[1] \/ (r1[1] = r2[1] /\ r1[2] < r2[2])

(* C14: the table get_teams combines from N > 1 pages holds the rows of    *)
(* page 1, then page 2, ..., then page N, each page's rows in their order, *)
(* with the row index 0, 1, ..., total_rows - 1; when the page total is 1  *)
(* the first page's result is returned as it is.                           *)
C14_RowsInPageOrder ==
    (/\ last.op = "get_teams"
     /\ last.raised = "none"
     /\ last.value.kind = "Dframe")
    => LET rows == last.value.rows
           index == last.value.index
       IN  /\ Len(last.io) > 1
                => /\ Len(rows) = TotalRows(last.io)
                   /\ \A p \in DOMAIN last.io :
                        \A i \in 1..last.io[p].reply.nrows :
                          \E j \in DOMAIN rows : rows[j] = <<p, i>>
                   /\ \A j1, j2 \in DOMAIN rows :
                        j1 < j2 => RowBefore(rows[j1], rows[j2])
                   /\ DOMAIN index = DOMAIN rows
                   /\ \A j \in DOMAIN index : index[j] = j - 1
           /\ (IsNone(last.args.page) /\ last.value.attr.pageTotal = 1)
                => /\ Len(last.io) = 1
                   /\ last.value = Dframe(last.value.attr)
                   /\ last.value.attr.time_downloaded = 1
                   /\ rows = [i \in 1..last.io[1].reply.nrows |-> <<1, i>>]

C14_Witness ==
    /\ last.op = "get_teams"
    /\ last.raised = "none"
    /\ Len(last.io) = 2
    /\ last.io[1].reply.nrows = 2
    /\ last.io[2].reply.nrows = 1
    /\ last.value.rows = <<<<1, 1>>, <<1, 2>>, <<2, 1>>>>
    /\ last.value.index = <<0, 1, 2>>

(* C15: the attr of the table get_teams combines from N > 1 pages is the   *)
(* envelope of the last fetch, the one for page N, not that of page 1.     *)
C15_LastPageEnvelope ==
    (/\ last.op = "get_teams"
     /\ last.raised = "none"
     /\ Len(last.io) > 1)
    => LET n == Len(last.io)
           attr == last.value.attr
       IN  /\ attr.kind = "dict"
           /\ attr.time_downloaded = n
           /\ attr.time_downloaded # 1
           /\ attr.requested_url.args = last.io[n].args
           /\ attr.requested_url.args.page = PyStr(str(n))
           /\ attr.code = FetchStatus(last.io[n])
           /\ attr.rows = [i \in 1..last.io[n].reply.nrows |-> <<n, i>>]

C15_Witness ==
    /\ last.op = "get_teams"
    /\ last.raised = "none"
    /\ Len(last.io) = 3
    /\ last.value.attr.time_downloaded = 3
    /\ last.value.attr.requested_url.args.page = PyStr(<<"3">>)

(* C16: when a fetch of an endpoint call fails the call ends with that     *)
(* error and returns nothing: the failed fetch is the last one the call    *)
(* issues, no fetch is issued twice, and get_teams returns no table built  *)
(* from the pages before the failure.                                      *)
C16_FailureAborts ==
    IsCall
    => /\ (\E k \in DOMAIN last.io : last.io[k].reply.fail)
            => /\ last.raised = "FetchError"
               /\ last.value = NoValue
               /\ \A k \in DOMAIN last.io :
                    last.io[k].reply.fail <=> k = Len(last.io)
       /\ \A j, k \in DOMAIN last.io :
            j # k => last.io[j].args # last.io[k].args
       /\ last.raised = "none"
            => /\ last.io # <<>>
               /\ \A k \in DOMAIN last.io : ~last.io[k].reply.fail

C16_Witness ==
    /\ last.op = "get_teams"
    /\ Len(last.io) = 2
    /\ last.io[1].reply.pageTotal = 3
    /\ ~last.io[1].reply.fail
    /\ last.io[2].reply.fail
    /\ last.raised = "FetchError"
    /\ last.value = NoValue

(* the envelope of a returned value *)
Envelope(value) == IF value.kind = "Dframe" THEN value.attr ELSE value

(* C17: the shape of the value a call returns depends only on the          *)
(* data_format of the session at the call: a frame carrying the envelope   *)
(* as attr for dataframe, a dictionary for json and xml, whichever         *)
(* endpoint is called.                                                     *)
C17_ShapeFollowsFormat ==
    (IsCall /\ last.raised = "none")
    => IF last.data_format = PyStr(s_dataframe)
       THEN /\ last.value.kind = "Dframe"
            /\ last.value.attr.kind = "dict"
            /\ DOMAIN last.value.index = DOMAIN last.value.rows
       ELSE last.value.kind = "dict"

C17_Witness ==
    /\ last.op = "get_hybrid"
    /\ last.raised = "none"
    /\ last.data_format = PyStr(s_xml)
    /\ last.value.kind = "dict"
    /\ last.value.frame_type = "hybrid"

(* C18 as claimed: with a local source every fetch is a fixture load and   *)
(* the envelope has local_data true, a local_time and a requested_url      *)
(* other than url; with a network source the envelope has local_data       *)
(* false, no local_time and requested_url equal to url.                    *)
C18_LocalAndNetwork ==
    IsCall
    => IF LowerCaseOf(s_local, last.source.s)
       THEN /\ \A k \in DOMAIN last.io : last.io[k].via = "local"
            /\ last.raised = "none"
                 => /\ Envelope(last.value).local_data
                    /\ Envelope(last.value).local_time
                    /\ Envelope(last.value).requested_url
                         # Envelope(last.value).url
       ELSE /\ \A k \in DOMAIN last.io : last.io[k].via = "http"
            /\ last.raised = "none"
                 => /\ ~Envelope(last.value).local_data
                    /\ ~Envelope(last.value).local_time
                    /\ Envelope(last.value).requested_url
                         = Envelope(last.value).url

(* the conditional-fetch arguments the caller supplied; get_status and     *)
(* get_season take none                                                    *)
Supplied(name) ==
    IF name \in DOMAIN last.args THEN last.args[name] ELSE PyNone

(* C19 as claimed: the envelope of every returned value echoes the         *)
(* mod_since and only_mod_since the caller supplied, None when none was    *)
(* supplied, with every source; with status 304 the text is absent.        *)
C19_ConditionalEcho ==
    (IsCall /\ last.raised = "none")
    => /\ Envelope(last.value).mod_since = Supplied("mod_since")
       /\ Envelope(last.value).only_mod_since = Supplied("only_mod_since")
       /\ Envelope(last.value).code = 304 => ~Envelope(last.value).text

(* a get_teams call that goes on after the first page: dataframe format,   *)
(* no page argument, first response with status 200 and a page total > 1   *)
Paginating ==
    /\ last.op = "get_teams"
    /\ last.io # <<>>
    /\ last.data_format = PyStr(s_dataframe)
    /\ IsNone(last.args.page)
    /\ ~last.io[1].reply.fail
    /\ FetchStatus(last.io[1]) = 200
    /\ last.io[1].reply.pageTotal > 1

(* the fetches are for page None, then "2", "3", ... and carry the         *)
(* caller's filters and conditional-fetch arguments                        *)
PagesInOrder ==
    \A k \in DOMAIN last.io :
        /\ last.io[k].cmd = "teams"
        /\ last.io[k].args.page = IF k = 1 THEN PyNone ELSE PyStr(str(k))
        /\ last.io[k].args.teamNumber = last.args.team
        /\ last.io[k].args.eventCode = last.args.event
        /\ last.io[k].args.districtCode = last.args.district
        /\ last.io[k].args.state = last.args.state
        /\ last.io[k].mod_since = last.args.mod_since
        /\ last.io[k].only_mod_since = last.args.only_mod_since

(* C20 as claimed: every call other than a paginating get_teams issues     *)
(* exactly one fetch, and a paginating get_teams whose first page reports  *)
(* pageTotal N issues exactly N, for page None then "2", ..., "N" in this  *)
(* order, with the same filters and conditional-fetch arguments.           *)
C20_Original ==
    IsCall
    => IF Paginating
       THEN Len(last.io) = last.io[1].reply.pageTotal /\ PagesInOrder
       ELSE Len(last.io) = 1

(* C20 amended: a call that raises ArgumentError issues no fetch; any      *)
(* other call than a paginating get_teams issues exactly one; a paginating *)
(* get_teams whose first page reports pageTotal N issues its fetches for   *)
(* page None then "2", "3", ... in this order with the same filters and    *)
(* conditional-fetch arguments, each after the previous one returned:      *)
(* exactly N when no fetch fails, and none after a fetch that fails.       *)
C20_SequentialFetches ==
    IsCall
    => IF last.raised = "ArgumentError" THEN last.io = <<>>
       ELSE IF Paginating
       THEN /\ Len(last.io) <= last.io[1].reply.pageTotal
            /\ \A k \in DOMAIN last.io :
                 k < Len(last.io) => ~last.io[k].reply.fail
            /\ \/ Len(last.io) = last.io[1].reply.pageTotal
               \/ last.io[Len(last.io)].reply.fail
            /\ PagesInOrder
       ELSE Len(last.io) = 1

C20_Witness ==
    /\ Paginating
    /\ last.raised = "none"
    /\ Len(last.io) = 3
    /\ last.io[1].reply.pageTotal = 3
    /\ Given(last.args.district)
    /\ Given(last.args.mod_since)
    /\ last.io[3].args.page = PyStr(<<"3">>)
    /\ last.io[3].args.districtCode = last.args.district

(***************************************************************************)
(* Assignments that raise (checked under Spec).                            *)
(***************************************************************************)
IsAssignment ==
    last.op \in {"username", "key", "season", "data_format", "source"}

(* C21: an assignment to a field of a Session that raises leaves every     *)
(* field, the assigned one included, at the value it had before, and the   *)
(* Session is still there.                                                 *)
C21_RaisingAssignmentKeepsFields ==
    (IsAssignment /\ last.raised # "none")
    => /\ session = last.before
       /\ session # NoSession
       /\ \A f \in {"username", "key", "season", "data_format", "source"} :
            session[f] = last.before[f] /\ session[f] # Unset

C21_Witness ==
    /\ last.op = "season"
    /\ last.raised = "ValueError"
    /\ last.args.value \in {PyInt(MinSeason - 1), PyInt(current_year + 2)}
    /\ session = last.before
    /\ session.season # last.args.value

====
